---- MODULE Spec2Model ----
(***************************************************************************)
(* rget: the depth-limited link crawl (get_urls), the link tree and queue  *)
(* it is built on (structures.rs), and the concurrent download dispatch    *)
(* (download_depth / Tree::traverse_async).                                *)
(***************************************************************************)
EXTENDS Integers, Sequences, FiniteSets, TLC

\* ------------------------------------------------------------------ bounds
NumUrls  == 5   \* resources of the served web, ids 0 .. NumUrls-1
MaxLinks == 3   \* most links on one page
MaxDepth == 4   \* largest max_depth handed to get_urls
MaxTasks == 5   \* largest tree whose dispatch is explored
MaxOps   == 6   \* most push and pop calls made on one queue
NumValues == 2  \* values pushed on that queue: 1 .. NumValues
MaxTreeNodes == 5  \* largest tree built with push_node for Tree::traverse
MaxDocLen == 3  \* most elements of a document handed to the link extractor

UrlId == 0 .. (NumUrls - 1)

\* ------------------------------------------------------------ small helpers
None == 0       \* Option::None of a QueueNodeRef (cell ids start at 1)

RECURSIVE Flatten(_)
Flatten(ss) == IF ss = <<>> THEN <<>> ELSE Head(ss) \o Flatten(Tail(ss))

StartsWith(s, p) == Len(s) >= Len(p) /\ SubSeq(s, 1, Len(p)) = p

\* --------------------------------------------------------- Queue<T> (linked)
\* A queue is [head, tail, length, cells]; cells maps a live cell id to the
\* QueueNode [value, next] it holds.
QueueDefault == [head |-> None, tail |-> None, length |-> 0, cells |-> <<>>]

QueueNodeNew(v) == [value |-> v, next |-> None]

\* an address not in use
FreshCell(q) ==
    CHOOSE n \in 1 .. (Cardinality(DOMAIN q.cells) + 1) : n \notin DOMAIN q.cells

QueuePushFront(q, v) ==
    LET new == FreshCell(q) IN
    [head   |-> new,
     tail   |-> IF q.tail = None THEN new ELSE q.tail,
     length |-> q.length + 1,
     cells  |-> [i \in DOMAIN q.cells \cup {new} |->
                   IF i = new THEN [value |-> v, next |-> q.head] ELSE q.cells[i]]]

QueuePush(q, v) ==
    LET new == FreshCell(q) IN
    IF q.head = None /\ q.tail = None
    THEN [head   |-> new,
          tail   |-> new,
          length |-> q.length + 1,
          cells  |-> [i \in {new} |-> QueueNodeNew(v)]]
    ELSE [head   |-> q.head,
          tail   |-> new,
          length |-> q.length + 1,
          cells  |-> [i \in DOMAIN q.cells \cup {new} |->
                        IF i = new THEN QueueNodeNew(v)
                        ELSE IF i = q.tail THEN [q.cells[i] EXCEPT !.next = new]
                        ELSE q.cells[i]]]

\* the unwrap of push (structures.rs:138) fails on an absent tail
QueuePushPanics(q) == ~(q.head = None /\ q.tail = None) /\ q.tail = None

QueueIsEmpty(q) == q.head = None /\ q.tail = None

\* the assertions of pop (structures.rs:147, 157) fail
QueuePopPanics(q) ==
    IF q.head = None \/ q.tail = None
    THEN ~(q.head = None /\ q.tail = None)
    ELSE q.cells[q.head].next = None /\ q.length - 1 # 0

QueuePopKeepsTail(q) ==
    IF q.head = None \/ q.tail = None
    THEN [some |-> FALSE, value |-> None, q |-> q]
    ELSE LET node == q.cells[q.head]
             rest == [i \in DOMAIN q.cells \ {q.head} |-> q.cells[i]]
         IN  [some  |-> TRUE,
              value |-> node.value,
              q     |-> [head   |-> node.next,
                         tail   |-> q.tail,
                         length |-> q.length - 1,
                         cells  |-> rest]]

QueuePopCountsFirst(q) ==
    IF q.head = None \/ q.tail = None
    THEN [some |-> FALSE, value |-> None, q |-> [q EXCEPT !.length = @ - 1]]
    ELSE LET node == q.cells[q.head]
             rest == [i \in DOMAIN q.cells \ {q.head} |-> q.cells[i]]
         IN  [some  |-> TRUE,
              value |-> node.value,
              q     |-> [head   |-> node.next,
                         tail   |-> IF node.next = None THEN None ELSE q.tail,
                         length |-> q.length - 1,
                         cells  |-> rest]]

\* pop returns [some, value, q]: some = FALSE is Option::None
QueuePop(q) ==
    IF q.head = None \/ q.tail = None
    THEN [some |-> FALSE, value |-> None, q |-> q]
    ELSE LET node == q.cells[q.head]
             rest == [i \in DOMAIN q.cells \ {q.head} |-> q.cells[i]]
         IN  [some  |-> TRUE,
              value |-> node.value,
              q     |-> [head   |-> node.next,
                         tail   |-> IF node.next = None THEN None ELSE q.tail,
                         length |-> q.length - 1,
                         cells  |-> rest]]

\* the values held, head first (follows the next links)
RECURSIVE CellsFrom(_, _)
CellsFrom(q, c) ==
    IF c = None THEN <<>> ELSE <<q.cells[c].value>> \o CellsFrom(q, q.cells[c].next)

QueueItems(q) == CellsFrom(q, q.head)

\* ------------------------------------------------------------- URL strings
\* A URL or attribute value is [scheme, id]: scheme "https" / "http" for an
\* absolute URL, "relative" for a reference without scheme.
Url(scheme, id) == [scheme |-> scheme, id |-> id]

\* ------------------------------------------------------------ content type
TextPlain == <<"t","e","x","t","/","p","l","a","i","n">>
TextHtml  == <<"t","e","x","t","/","h","t","m","l">>
TextCss   == <<"t","e","x","t","/","c","s","s">>
TextJavascript == <<"t","e","x","t","/","j","a","v","a","s","c","r","i","p","t">>
TextXml   == <<"t","e","x","t","/","x","m","l">>
TextMarkdown == <<"t","e","x","t","/","m","a","r","k","d","o","w","n">>
TextCsv   == <<"t","e","x","t","/","c","s","v">>
TextRichtext == <<"t","e","x","t","/","r","i","c","h","t","e","x","t">>
TextTsv   == <<"t","e","x","t","/","t","a","b","-","s","e","p","a","r","a","t","e","d",
               "-","v","a","l","u","e","s">>

\* ContentType::from_header_value: the header is <<>> (missing) or
\* <<[utf8, str]>>; the result is [tag, sub] with tag Text / Other / Unknown.
ContentTypeFromHeaderValue(ct_value) ==
    IF ct_value = <<>> THEN [tag |-> "Unknown", sub |-> <<>>]
    ELSE LET value == ct_value[1] IN
         IF ~value.utf8 THEN [tag |-> "Unknown", sub |-> <<>>]
         ELSE LET s == value.str IN
              IF StartsWith(s, TextPlain) THEN [tag |-> "Text", sub |-> <<"Plain">>]
              ELSE IF StartsWith(s, TextHtml) THEN [tag |-> "Text", sub |-> <<"Html">>]
              ELSE IF StartsWith(s, TextCss) THEN [tag |-> "Text", sub |-> <<"Css">>]
              ELSE IF StartsWith(s, TextJavascript)
                   THEN [tag |-> "Text", sub |-> <<"Javascript">>]
              ELSE IF StartsWith(s, TextXml) THEN [tag |-> "Text", sub |-> <<"Xml">>]
              ELSE IF StartsWith(s, TextMarkdown)
                   THEN [tag |-> "Text", sub |-> <<"Markdown">>]
              ELSE IF StartsWith(s, TextCsv) THEN [tag |-> "Text", sub |-> <<"Csv">>]
              ELSE IF StartsWith(s, TextRichtext)
                   THEN [tag |-> "Text", sub |-> <<"Richtext">>]
              ELSE IF StartsWith(s, TextTsv)
                   THEN [tag |-> "Text", sub |-> <<"TabSeparatedValues">>]
              ELSE [tag |-> "Other", sub |-> s]

\* ----------------------------------------------------------- link extractor
\* An element is [tag, href, src]; an attribute is <<>> (absent) or <<value>>.
Selected(e) ==
    \/ e.tag = "a"   /\ e.href # <<>>
    \/ e.tag = "img" /\ e.src  # <<>>

LinkOf(e) ==
    IF e.href # <<>>
    THEN IF e.href[1].scheme \in {"https", "http"} THEN <<e.href[1]>> ELSE <<>>
    ELSE IF e.src # <<>>
    THEN IF e.src[1].scheme = "https" THEN <<e.src[1]>> ELSE <<>>
    ELSE <<>>

RECURSIVE find_https_links_with_parser(_)
find_https_links_with_parser(doc) ==
    IF doc = <<>> THEN <<>>
    ELSE (IF Selected(Head(doc)) THEN LinkOf(Head(doc)) ELSE <<>>)
         \o find_https_links_with_parser(Tail(doc))

\* ------------------------------------------------------------ the served web
\* What a GET of resource id answers: ctype "html" (text/html; charset=utf-8),
\* "json" (application/json), "absent" (no Content-Type header), "invalid"
\* (header bytes that are not visible ASCII), "fail" (network error or non-2xx
\* status); links are the ids its anchors point to, in document order.
CTypes == {"html", "json", "absent", "invalid", "fail"}

CharsetSuffix == <<";"," ","c","h","a","r","s","e","t","=","u","t","f","-","8">>
ApplicationJson == <<"a","p","p","l","i","c","a","t","i","o","n","/","j","s","o","n">>

FetchFails(page) == page.ctype = "fail"

HeaderOf(page) ==
    CASE page.ctype = "html"    -> <<[utf8 |-> TRUE, str |-> TextHtml \o CharsetSuffix]>>
      [] page.ctype = "json"    -> <<[utf8 |-> TRUE, str |-> ApplicationJson]>>
      [] page.ctype = "invalid" -> <<[utf8 |-> FALSE, str |-> <<>>]>>
      [] OTHER                  -> <<>>

\* the document: one anchor per link, then an image with a relative src
BodyOf(page) ==
    [i \in 1 .. Len(page.links) |->
        [tag |-> "a", href |-> <<Url("https", page.links[i])>>, src |-> <<>>]]
    \o <<[tag |-> "img", href |-> <<>>, src |-> <<Url("relative", 0)>>]>>

\* The webs explored: the root (id 0) links to fan0 resources, every other
\* resource to fan1, numbered consecutively and taken modulo wrap, so that
\* wrap = NumUrls gives trees that close into cycles and small wrap gives
\* self links and repeated links; one resource may answer with another ctype.
FirstLink(u, fan0, fan1) == IF u = 0 THEN 1 ELSE 1 + fan0 + (u - 1) * fan1

LinksOf(u, fan0, fan1, wrap) ==
    [i \in 1 .. (IF u = 0 THEN fan0 ELSE fan1) |->
        (FirstLink(u, fan0, fan1) + i - 1) % wrap]

WebOf(fan0, fan1, wrap, special, skind) ==
    [u \in UrlId |->
        [ctype |-> IF u = special THEN skind ELSE "html",
         links |-> LinksOf(u, fan0, fan1, wrap)]]

\* ------------------------------------------------------------------- state
VARIABLES
    web,         \* the served web: id -> [ctype, links]
    max_depth,   \* get_urls' max_depth
    pc,          \* "crawl", "crawled", "spawn", "join", "returned", "panic";
                 \* "queue", "build", "traverse", "traversed", "extract",
                 \* "extracted", "classify", "classified" when a part is
                 \* driven on its own
    fault,       \* [kind, node]: what panicked ("none" while running)
    nodes,       \* the TreeNode cells: node id -> [value, children]
    url_tree,    \* Tree: [root, depth]
    q,           \* get_urls' frontier queue of TreeNodeRef
    cur_width, next_width, cur_count,
    fetched,     \* URLs get_urls has requested, in order
    tq,          \* the queue of traverse_async, or of traverse
    h,           \* traverse_async's handles: [node, url, outfile, state]
    joined,      \* handles already awaited
    uq,          \* a Queue driven directly by push and pop
    ops,         \* the push and pop calls made on uq, with their results
    visited,     \* the nodes Tree::traverse has handed to its visitor
    input,       \* the argument of a function called on its own
    output       \* its result

mainVars == <<web, max_depth, pc, fault, nodes, url_tree, q, cur_width, next_width,
              cur_count, fetched, tq, h, joined>>

unitVars == <<uq, ops, visited, input, output>>

vars == <<mainVars, unitVars>>

crawlVars == <<nodes, url_tree, q, cur_width, next_width, cur_count, fetched>>
dispatchVars == <<tq, h, joined>>

\* -------------------------------------------------------------------- Tree
TreeNodeNew(value) == [value |-> value, children |-> <<>>]

TreeNewDepthZero(root) == [root |-> root, depth |-> 0]

\* Tree::new: the tree over the root cell
TreeNew(root) == [root |-> root, depth |-> 1]

PushNodeAlsoRoot(ns, parent, child) ==
    [ns EXCEPT ![parent].children = Append(@, child), ![1].children = Append(@, child)]

\* Tree::push_node on the node cells
PushNode(ns, parent, child) ==
    [ns EXCEPT ![parent].children = Append(@, child)]

RootUrl == Url("https", 0)

NoFault == [kind |-> "none", node |-> 0]

Init ==
    /\ \E fan0 \in 0 .. MaxLinks, fan1 \in 0 .. MaxLinks, wrap \in 1 .. NumUrls,
          special \in 0 .. NumUrls, skind \in CTypes \ {"html"} :
            /\ special = NumUrls => skind = "json"
            /\ web = WebOf(fan0, fan1, wrap, special, skind)
    /\ max_depth \in 0 .. MaxDepth
    /\ pc = "crawl"
    /\ fault = NoFault
    /\ cur_width = 1
    /\ next_width = 1
    /\ cur_count = 1
    /\ nodes = <<TreeNodeNew(RootUrl)>>
    /\ url_tree = TreeNew(1)
    /\ q = QueuePush(QueueDefault, 1)
    /\ fetched = <<>>
    /\ tq = QueueDefault
    /\ h = <<>>
    /\ joined = 0
    /\ uq = QueueDefault
    /\ ops = <<>>
    /\ visited = <<>>
    /\ input = <<>>
    /\ output = <<>>

\* ------------------------------------------------------------------ get_urls
LoopCondOffByOne == ~QueueIsEmpty(q) /\ max_depth >= url_tree.depth - 1

\* the while condition (main.rs:248)
LoopCond == ~QueueIsEmpty(q) /\ max_depth > url_tree.depth

\* what the iteration works on: the popped node, its URL, the response
Cur == QueuePop(q).value
CurrentUrl == nodes[Cur].value
Response == web[CurrentUrl.id]
ContentTypeOfResponse == ContentTypeFromHeaderValue(HeaderOf(Response))

\* the for loop over the extracted links (main.rs:269-276): a new node per
\* link, pushed on the queue and attached to cur
RECURSIVE AttachLinks(_, _, _, _)
AttachLinks(ns, qq, cur, links) ==
    IF links = <<>> THEN [nodes |-> ns, q |-> qq]
    ELSE LET child == Len(ns) + 1
             ns1   == Append(ns, TreeNodeNew(Head(links)))
         IN  AttachLinks(PushNode(ns1, cur, child), QueuePush(qq, child),
                         cur, Tail(links))

\* reqwest::get(..).await.unwrap().error_for_status().unwrap() panics
CrawlFetchFail ==
    /\ pc = "crawl" /\ LoopCond
    /\ FetchFails(Response)
    /\ q' = QueuePop(q).q
    /\ cur_count' = cur_count + 1
    /\ fetched' = Append(fetched, CurrentUrl)
    /\ pc' = "panic"
    /\ fault' = [kind |-> "fetch", node |-> Cur]
    /\ UNCHANGED <<unitVars, web, max_depth, nodes, url_tree, cur_width, next_width>>
    /\ UNCHANGED dispatchVars

\* ContentType::Text: expand the node, then close the level if it is full
CrawlText ==
    /\ pc = "crawl" /\ LoopCond
    /\ ~FetchFails(Response)
    /\ ContentTypeOfResponse.tag = "Text"
    /\ LET links == find_https_links_with_parser(BodyOf(Response))
           grown == AttachLinks(nodes, QueuePop(q).q, Cur, links)
           count == cur_count + 1
           width == next_width + Len(links)
       IN  /\ nodes' = grown.nodes
           /\ q' = grown.q
           /\ IF cur_width <= count
              THEN /\ cur_width' = width
                   /\ next_width' = 0
                   /\ cur_count' = 0
                   /\ url_tree' = [url_tree EXCEPT !.depth = @ + 1]
              ELSE /\ cur_width' = cur_width
                   /\ next_width' = width
                   /\ cur_count' = count
                   /\ url_tree' = url_tree
    /\ fetched' = Append(fetched, CurrentUrl)
    /\ UNCHANGED <<unitVars, web, max_depth, pc, fault>>
    /\ UNCHANGED dispatchVars

\* ContentType::Other: continue
CrawlOther ==
    /\ pc = "crawl" /\ LoopCond
    /\ ~FetchFails(Response)
    /\ ContentTypeOfResponse.tag = "Other"
    /\ q' = QueuePop(q).q
    /\ cur_count' = cur_count + 1
    /\ fetched' = Append(fetched, CurrentUrl)
    /\ UNCHANGED <<unitVars, web, max_depth, pc, fault, nodes, url_tree, cur_width, next_width>>
    /\ UNCHANGED dispatchVars

\* ContentType::Unknown: unreachable!()
CrawlUnknown ==
    /\ pc = "crawl" /\ LoopCond
    /\ ~FetchFails(Response)
    /\ ContentTypeOfResponse.tag = "Unknown"
    /\ q' = QueuePop(q).q
    /\ cur_count' = cur_count + 1
    /\ fetched' = Append(fetched, CurrentUrl)
    /\ pc' = "panic"
    /\ fault' = [kind |-> "unknown", node |-> Cur]
    /\ UNCHANGED <<unitVars, web, max_depth, nodes, url_tree, cur_width, next_width>>
    /\ UNCHANGED dispatchVars

\* the loop ends and get_urls returns url_tree
CrawlReturn ==
    /\ pc = "crawl" /\ ~LoopCond
    /\ pc' = "crawled"
    /\ UNCHANGED <<unitVars, web, max_depth, fault>>
    /\ UNCHANGED crawlVars
    /\ UNCHANGED dispatchVars

\* ------------------------------------------------------------ hash_file_name
\* The string as the hasher sees it, and a stand-in for SipHash's finish():
\* a fixed function of the string, one to one on the URLs of the model.
StrCode(s) == 2 * s.id + (IF s.scheme = "https" THEN 0 ELSE 1)
DefaultHasherFinish(s) == (37 * StrCode(s) + 11) % 256

HexDigit(d) == <<"0","1","2","3","4","5","6","7","8","9","a","b","c","d","e","f">>[d + 1]

\* format!("{:x}", n)
RECURSIVE LowerHex(_)
LowerHex(n) ==
    IF n < 16 THEN <<HexDigit(n)>> ELSE LowerHex(n \div 16) \o <<HexDigit(n % 16)>>

hash_file_name(s) == LowerHex(DefaultHasherFinish(s))

\* --------------------------------------------- download_depth, traverse_async
OUT_FILE == <<"r","g","e","t",".","o","u","t">>

DownloadUnitDefaultOutfile(url) ==
    [url |-> url, outfile |-> OUT_FILE, state |-> "running"]

\* the closure of download_depth (main.rs:329-335): the unit of work of a node
DownloadUnit(url) ==
    [url |-> url, outfile |-> hash_file_name(url), state |-> "running"]

RECURSIVE PushAllFront(_, _)
PushAllFront(qq, items) ==
    IF items = <<>> THEN qq
    ELSE PushAllFront(QueuePushFront(qq, Head(items)), Tail(items))

RECURSIVE PushAll(_, _)
PushAll(qq, items) ==
    IF items = <<>> THEN qq ELSE PushAll(QueuePush(qq, Head(items)), Tail(items))

TraverseStartEarly ==
    /\ pc \in {"crawl", "crawled"}
    /\ Len(nodes) <= MaxTasks
    /\ tq' = QueuePush(QueueDefault, url_tree.root)
    /\ h' = <<>>
    /\ joined' = 0
    /\ pc' = "spawn"
    /\ UNCHANGED <<unitVars, web, max_depth, fault>>
    /\ UNCHANGED crawlVars

\* download_depth hands the crawled tree to traverse_async, which starts its
\* queue with the root (structures.rs:48-51)
TraverseStart ==
    /\ pc = "crawled"
    /\ Len(nodes) <= MaxTasks
    /\ tq' = QueuePush(QueueDefault, url_tree.root)
    /\ h' = <<>>
    /\ joined' = 0
    /\ pc' = "spawn"
    /\ UNCHANGED <<unitVars, web, max_depth, fault>>
    /\ UNCHANGED crawlVars

\* one iteration of the while loop: pop, push the children, spawn f(value)
TraverseSpawn ==
    /\ pc = "spawn" /\ ~QueueIsEmpty(tq)
    /\ LET popped  == QueuePop(tq)
           current == nodes[popped.value]
       IN  /\ tq' = PushAll(popped.q, current.children)
           /\ h' = Append(h, [node |-> popped.value] @@ DownloadUnit(current.value))
    /\ UNCHANGED <<unitVars, web, max_depth, pc, fault, joined>>
    /\ UNCHANGED crawlVars

\* the while loop ends; the handles are awaited from the first on
TraverseSpawned ==
    /\ pc = "spawn" /\ QueueIsEmpty(tq)
    /\ pc' = "join"
    /\ UNCHANGED <<unitVars, web, max_depth, fault>>
    /\ UNCHANGED crawlVars
    /\ UNCHANGED dispatchVars

\* a spawned download completes: download() returned Ok
DownloadOk(i) ==
    /\ pc \in {"spawn", "join", "panic"}
    /\ i \in DOMAIN h
    /\ h[i].state = "running"
    /\ ~FetchFails(web[h[i].url.id])
    /\ h' = [h EXCEPT ![i].state = "ok"]
    /\ UNCHANGED <<unitVars, web, max_depth, pc, fault, tq, joined>>
    /\ UNCHANGED crawlVars

\* a spawned download fails: download() returned Err and the unwrap panics
\* the task
DownloadFail(i) ==
    /\ pc \in {"spawn", "join", "panic"}
    /\ i \in DOMAIN h
    /\ h[i].state = "running"
    /\ h' = [h EXCEPT ![i].state = "failed"]
    /\ UNCHANGED <<unitVars, web, max_depth, pc, fault, tq, joined>>
    /\ UNCHANGED crawlVars

JoinOkNoWait ==
    /\ pc = "join" /\ joined < Len(h)
    /\ h[joined + 1].state # "failed"
    /\ joined' = joined + 1
    /\ UNCHANGED <<unitVars, web, max_depth, pc, fault, tq, h>>
    /\ UNCHANGED crawlVars

\* handle.await.unwrap() on a task that completed
JoinOk ==
    /\ pc = "join" /\ joined < Len(h)
    /\ h[joined + 1].state = "ok"
    /\ joined' = joined + 1
    /\ UNCHANGED <<unitVars, web, max_depth, pc, fault, tq, h>>
    /\ UNCHANGED crawlVars

\* handle.await.unwrap() on a task that panicked
JoinPanic ==
    /\ pc = "join" /\ joined < Len(h)
    /\ h[joined + 1].state = "failed"
    /\ pc' = "panic"
    /\ fault' = [kind |-> "join", node |-> h[joined + 1].node]
    /\ UNCHANGED <<unitVars, web, max_depth, tq, h, joined>>
    /\ UNCHANGED crawlVars

\* every handle awaited: traverse_async returns, download_depth returns Ok(())
TraverseReturn ==
    /\ pc = "join" /\ joined = Len(h)
    /\ pc' = "returned"
    /\ UNCHANGED <<unitVars, web, max_depth, fault>>
    /\ UNCHANGED crawlVars
    /\ UNCHANGED dispatchVars

Next ==
    \/ CrawlFetchFail
    \/ CrawlText
    \/ CrawlOther
    \/ CrawlUnknown
    \/ CrawlReturn
    \/ TraverseStart
    \/ TraverseSpawn
    \/ TraverseSpawned
    \/ \E i \in 1 .. MaxTasks : DownloadOk(i)
    \/ \E i \in 1 .. MaxTasks : DownloadFail(i)
    \/ JoinOk
    \/ JoinPanic
    \/ TraverseReturn

Spec == Init /\ [][Next]_vars

\* ------------------------------------------------- the parts on their own
\* Queue, Tree::traverse, the link extractor and the classifier are public
\* and are called here directly, as the tests of structures.rs call them.
IdleMain ==
    /\ web = WebOf(0, 0, 1, NumUrls, "json")
    /\ max_depth = 0
    /\ fault = NoFault
    /\ cur_width = 1
    /\ next_width = 1
    /\ cur_count = 1
    /\ nodes = <<TreeNodeNew(RootUrl)>>
    /\ url_tree = TreeNew(1)
    /\ q = QueueDefault
    /\ fetched = <<>>
    /\ tq = QueueDefault
    /\ h = <<>>
    /\ joined = 0

InitQueue ==
    /\ pc = "queue"
    /\ IdleMain
    /\ uq = QueueDefault
    /\ ops = <<>>
    /\ visited = <<>>
    /\ input = <<>>
    /\ output = <<>>

\* q.push(v)
QueueOpPush(v) ==
    /\ pc = "queue" /\ Len(ops) < MaxOps
    /\ ~QueuePushPanics(uq)
    /\ uq' = QueuePush(uq, v)
    /\ ops' = Append(ops, [op |-> "push", value |-> v, some |-> TRUE,
                           empty |-> QueueIsEmpty(uq)])
    /\ UNCHANGED <<mainVars, visited, input, output>>

\* q.pop(), on an empty queue too
QueueOpPop ==
    /\ pc = "queue" /\ Len(ops) < MaxOps
    /\ ~QueuePopPanics(uq)
    /\ LET r == QueuePop(uq)
       IN  /\ uq' = r.q
           /\ ops' = Append(ops, [op |-> "pop", value |-> r.value, some |-> r.some,
                                  empty |-> QueueIsEmpty(uq)])
    /\ UNCHANGED <<mainVars, visited, input, output>>

\* a tree is built with TreeNode::new and Tree::push_node, as in
\* test_queue_traverse, then walked with Tree::traverse
InitTraverse ==
    /\ pc = "build"
    /\ IdleMain
    /\ uq = QueueDefault
    /\ ops = <<>>
    /\ visited = <<>>
    /\ input = <<>>
    /\ output = <<>>

\* a new node is attached to a node of the tree
BuildAttach(parent) ==
    /\ pc = "build" /\ Len(nodes) < MaxTreeNodes
    /\ parent \in 1 .. Len(nodes)
    /\ LET child == Len(nodes) + 1
       IN  nodes' = PushNode(Append(nodes, TreeNodeNew(Url("https", child))),
                             parent, child)
    /\ UNCHANGED <<unitVars, web, max_depth, pc, fault, url_tree, q, cur_width,
                   next_width, cur_count, fetched, tq, h, joined>>

\* traverse starts its queue with the root (structures.rs:75-76)
TraverseBegin ==
    /\ pc = "build"
    /\ tq' = QueuePush(QueueDefault, url_tree.root)
    /\ visited' = <<>>
    /\ pc' = "traverse"
    /\ UNCHANGED <<web, max_depth, fault, h, joined, uq, ops, input, output>>
    /\ UNCHANGED crawlVars

\* one iteration of traverse's loop: pop, push the children, f(value)
TraverseVisit ==
    /\ pc = "traverse" /\ ~QueueIsEmpty(tq)
    /\ LET popped  == QueuePop(tq)
           current == nodes[popped.value]
       IN  /\ tq' = PushAll(popped.q, current.children)
           /\ visited' = Append(visited, [node |-> popped.value,
                                          value |-> current.value])
    /\ UNCHANGED <<web, max_depth, pc, fault, h, joined, uq, ops, input, output>>
    /\ UNCHANGED crawlVars

\* traverse's loop ends
TraverseEnd ==
    /\ pc = "traverse" /\ QueueIsEmpty(tq)
    /\ pc' = "traversed"
    /\ UNCHANGED <<unitVars, web, max_depth, fault>>
    /\ UNCHANGED crawlVars
    /\ UNCHANGED dispatchVars

\* the documents handed to the extractor: anchors with an href and images
\* with a src of every kind of value, and an anchor without href
AttrValues ==
    {Url(scheme, id) : scheme \in {"https", "http", "relative", "mailto"}, id \in 1 .. 2}

Elements ==
    {[tag |-> "a", href |-> <<v>>, src |-> <<>>] : v \in AttrValues}
    \cup {[tag |-> "img", href |-> <<>>, src |-> <<v>>] : v \in AttrValues}
    \cup {[tag |-> "a", href |-> <<>>, src |-> <<>>]}

Docs == UNION {[1 .. n -> Elements] : n \in 0 .. MaxDocLen}

InitExtract ==
    /\ pc = "extract"
    /\ IdleMain
    /\ uq = QueueDefault
    /\ ops = <<>>
    /\ visited = <<>>
    /\ input \in Docs
    /\ output = <<>>

Extract ==
    /\ pc = "extract"
    /\ output' = find_https_links_with_parser(input)
    /\ pc' = "extracted"
    /\ UNCHANGED <<web, max_depth, fault, uq, ops, visited, input>>
    /\ UNCHANGED crawlVars
    /\ UNCHANGED dispatchVars

\* the Content-Type headers handed to the classifier: none, one that is not
\* visible ASCII, each allow-listed type bare and with a charset parameter,
\* and declared types outside the list
TextCalendar == <<"t","e","x","t","/","c","a","l","e","n","d","a","r">>
ImagePng == <<"i","m","a","g","e","/","p","n","g">>
TextCsvSchema == TextCsv \o <<"-","s","c","h","e","m","a">>
TextXmlExternalParsedEntity ==
    TextXml \o <<"-","e","x","t","e","r","n","a","l","-","p","a","r","s","e","d",
                 "-","e","n","t","i","t","y">>

AllowListed ==
    {TextPlain, TextHtml, TextCss, TextJavascript, TextXml, TextMarkdown, TextCsv,
     TextRichtext, TextTsv}

HeaderStrings ==
    AllowListed
    \cup {t \o CharsetSuffix : t \in AllowListed}
    \cup {ApplicationJson, ImagePng, TextCalendar, TextCalendar \o CharsetSuffix,
          TextCsvSchema, TextXmlExternalParsedEntity}

Headers ==
    {<<>>, <<[utf8 |-> FALSE, str |-> <<>>]>>}
    \cup {<<[utf8 |-> TRUE, str |-> t]>> : t \in HeaderStrings}

InitClassify ==
    /\ pc = "classify"
    /\ IdleMain
    /\ uq = QueueDefault
    /\ ops = <<>>
    /\ visited = <<>>
    /\ input \in Headers
    /\ output = <<>>

Classify ==
    /\ pc = "classify"
    /\ output' = ContentTypeFromHeaderValue(input)
    /\ pc' = "classified"
    /\ UNCHANGED <<web, max_depth, fault, uq, ops, visited, input>>
    /\ UNCHANGED crawlVars
    /\ UNCHANGED dispatchVars

InitUnit ==
    \/ InitQueue
    \/ InitTraverse
    \/ InitExtract
    \/ InitClassify

NextUnit ==
    \/ \E v \in 1 .. NumValues : QueueOpPush(v)
    \/ QueueOpPop
    \/ \E parent \in 1 .. MaxTreeNodes : BuildAttach(parent)
    \/ TraverseBegin
    \/ TraverseVisit
    \/ TraverseEnd
    \/ Extract
    \/ Classify

SpecUnit == InitUnit /\ [][NextUnit]_vars


\* ------------------------------------------------------- derived quantities
\* get_urls has returned its tree (the run is in, or past, the dispatch)
CrawlReturned ==
    \/ pc \in {"crawled", "spawn", "join", "returned"}
    \/ pc = "panic" /\ fault.kind = "join"

CrawlPanicked == pc = "panic" /\ fault.kind \in {"fetch", "unknown"}

ChildValues(n) ==
    [i \in 1 .. Len(nodes[n].children) |-> nodes[nodes[n].children[i]].value]

Parent(n) == CHOOSE p \in 1 .. Len(nodes) :
                 \E i \in 1 .. Len(nodes[p].children) : nodes[p].children[i] = n

\* parent-to-child edges between the root and n
RECURSIVE EdgeDepth(_)
EdgeDepth(n) == IF n = url_tree.root THEN 0 ELSE 1 + EdgeDepth(Parent(n))

\* the tree's nodes level by level, computed from the children lists
RECURSIVE LevelsFrom(_)
LevelsFrom(level) ==
    IF level = <<>> THEN <<>>
    ELSE level \o LevelsFrom(Flatten([i \in 1 .. Len(level) |-> nodes[level[i]].children]))

LevelOrder == LevelsFrom(<<url_tree.root>>)

RootPage == web[RootUrl.id]
RootIsText == ~FetchFails(RootPage) /\ RootPage.ctype = "html"
RootLinks == [i \in 1 .. Len(RootPage.links) |-> Url("https", RootPage.links[i])]

\* the tree is the root plus one childless child per link of the root page
RootPlusLinks ==
    /\ Len(nodes) = 1 + Len(RootLinks)
    /\ ChildValues(url_tree.root) = RootLinks
    /\ \A n \in 2 .. Len(nodes) : nodes[n].children = <<>>

C3_Orig ==
    (CrawlReturned /\ max_depth >= 1) =>
        \A n \in 1 .. Len(nodes) : EdgeDepth(n) <= max_depth

\* C4: on the web root -> 2 children -> 1 grandchild each (all Text, all
\* URLs distinct) download_depth with max_depth = 2 issues exactly 3 downloads,
\* for the root and its 2 children and for no grandchild, each to the file
\* named by the hash of its own URL.
C4_Fixture ==
    /\ max_depth = 2
    /\ \A u \in UrlId : web[u].ctype = "html"
    /\ web[0].links = <<1, 2>>
    /\ web[1].links = <<3>>
    /\ web[2].links = <<4>>

Requests == [i \in 1 .. Len(h) |-> <<h[i].url, h[i].outfile>>]

C4_Expected ==
    << <<Url("https", 0), <<"b">> >>,
       <<Url("https", 1), <<"5", "5">> >>,
       <<Url("https", 2), <<"9", "f">> >> >>

C4_EndToEnd ==
    C4_Fixture =>
        /\ Requests = SubSeq(C4_Expected, 1, Len(h))
        /\ \A i \in 1 .. Len(h) : h[i].outfile = hash_file_name(nodes[h[i].node].value)
        /\ (pc \in {"join", "returned"} \/ (pc = "panic" /\ fault.kind = "join"))
              => Requests = C4_Expected

C4_Witness ==
    /\ C4_Fixture /\ pc = "returned"
    /\ Len(h) = 3 /\ \A i \in 1 .. 3 : h[i].state = "ok"

\* C5: the crawl loop, when every fetch returns, ends in Done (get_urls has
\* returned), where the queue is empty or the depth has reached max_depth.
C5_Orig ==
    (pc # "crawl" /\ fault.kind # "fetch") =>
        (CrawlReturned /\ (QueueIsEmpty(q) \/ url_tree.depth >= max_depth))

\* C6: a frontier node whose content type classifies as Unknown does not
\* fault the crawl.
C6_Orig == ~(pc = "panic" /\ fault.kind = "unknown")

\* C7: a fetch failure on a non-root frontier node does not abort the crawl.
C7_Orig == ~(pc = "panic" /\ fault.kind = "fetch" /\ fault.node # url_tree.root)

\* C8: when the dispatcher surfaces a download's failure, every scheduled
\* download has finished (succeeded or failed).
C8_Orig ==
    (pc = "panic" /\ fault.kind = "join") =>
        \A i \in 1 .. Len(h) : h[i].state # "running"

\* C9: traverse_async schedules exactly one unit per tree node, in level
\* order, every unit before any is awaited and however many are in flight,
\* and when all units succeed it returns only after every unit has completed.
Scheduled == [i \in 1 .. Len(h) |-> h[i].node]

C9_Dispatch ==
    /\ \A i \in 1 .. Len(h) : h[i].url = nodes[h[i].node].value
    /\ pc = "spawn" =>
          /\ joined = 0
          /\ Len(h) <= Len(nodes)
          /\ Scheduled = SubSeq(LevelOrder, 1, Len(h))
          /\ ~QueueIsEmpty(tq) => ENABLED TraverseSpawn
    /\ (pc \in {"join", "returned"} \/ (pc = "panic" /\ fault.kind = "join")) =>
          /\ Scheduled = LevelOrder
          /\ Len(h) = Len(nodes)
          /\ \A n \in 1 .. Len(nodes) : \E i \in 1 .. Len(h) : h[i].node = n
    /\ pc = "returned" =>
          /\ joined = Len(h)
          /\ \A i \in 1 .. Len(h) : h[i].state = "ok"

C9_Witness ==
    /\ pc = "returned"
    /\ Len(h) >= 5
    /\ Len(nodes[url_tree.root].children) >= 2
    /\ \E n \in 1 .. Len(nodes) : EdgeDepth(n) >= 2

\* C10: no two downloads in flight at the same time write to the same file.
C10_Orig ==
    \A i, j \in 1 .. Len(h) :
        (i # j /\ h[i].state = "running" /\ h[j].state = "running")
            => h[i].outfile # h[j].outfile

\* the values pushed, and the values the successful pops returned, in order
RECURSIVE ValuesOf(_, _)
ValuesOf(log, op) ==
    IF log = <<>> THEN <<>>
    ELSE (IF Head(log).op = op /\ Head(log).some THEN <<Head(log).value>> ELSE <<>>)
         \o ValuesOf(Tail(log), op)

Pushed == ValuesOf(ops, "push")
Popped == ValuesOf(ops, "pop")

\* C11: the k-th successful pop returns the k-th pushed value, and the queue
\* holds exactly the values pushed and not yet popped, in push order.
C11_Fifo ==
    pc = "queue" =>
        /\ Len(Popped) <= Len(Pushed)
        /\ Popped = SubSeq(Pushed, 1, Len(Popped))
        /\ QueueItems(uq) = SubSeq(Pushed, Len(Popped) + 1, Len(Pushed))

C11_Witness ==
    /\ pc = "queue" /\ Len(ops) = 6
    /\ Pushed = <<1, 2, 1>> /\ Popped = <<1, 2, 1>>
    /\ ops[2].op = "pop" /\ ops[3].op = "push"

\* C13: is_empty() iff length is 0, head absent iff tail absent, length is the
\* number of elements held, popping the last element leaves head and tail
\* absent, and no assertion of pop nor the unwrap of push can fail.
C13_QueueInv ==
    pc = "queue" =>
        /\ QueueIsEmpty(uq) <=> uq.length = 0
        /\ uq.head = None <=> uq.tail = None
        /\ uq.length = Len(Pushed) - Len(Popped)
        /\ uq.length = Cardinality(DOMAIN uq.cells)
        /\ uq.length = Len(QueueItems(uq))
        /\ Len(Pushed) = Len(Popped) => (uq.head = None /\ uq.tail = None)
        /\ ~QueuePopPanics(uq)
        /\ ~QueuePushPanics(uq)

C13_Witness ==
    /\ pc = "queue" /\ Len(ops) >= 4
    /\ ops[Len(ops)].op = "pop" /\ ops[Len(ops)].some
    /\ Len(Pushed) >= 2 /\ Len(Pushed) = Len(Popped)
    /\ uq.head = None /\ uq.tail = None

\* C14: pop on an empty queue returns None and leaves the queue empty with
\* length 0, and a push after it gives the queue a push on a fresh one gives.
C14_PopEmpty ==
    pc = "queue" =>
        /\ \A i \in 1 .. Len(ops) :
              ops[i].op = "pop" => (ops[i].empty <=> ~ops[i].some)
        /\ \A i \in 1 .. Len(ops) :
              (ops[i].op = "pop" /\ ~ops[i].some) => ops[i].value = None
        /\ (ops # <<>> /\ ops[Len(ops)].op = "pop" /\ ops[Len(ops)].empty)
              => uq = QueueDefault
        /\ (Len(ops) >= 2 /\ ops[Len(ops)].op = "push"
                /\ ops[Len(ops) - 1].op = "pop" /\ ops[Len(ops) - 1].empty)
              => /\ uq.head # None /\ uq.head = uq.tail /\ uq.length = 1
                 /\ uq.cells[uq.head] = QueueNodeNew(ops[Len(ops)].value)
                 /\ DOMAIN uq.cells = {uq.head}

C14_Witness ==
    /\ pc = "queue" /\ Len(ops) >= 5
    /\ ops[1].op = "push"
    /\ ops[Len(ops) - 1].op = "pop" /\ ops[Len(ops) - 1].empty
    /\ ops[Len(ops)].op = "push"

\* C12: traverse hands every node to the visitor exactly once, in level
\* order: a parent before its children, a level before the next, siblings in
\* the order push_node attached them.
VisitedNodes == [i \in 1 .. Len(visited) |-> visited[i].node]

VisitPos(n) == CHOOSE i \in 1 .. Len(visited) : visited[i].node = n

C12_Traverse ==
    /\ pc \in {"traverse", "traversed"} =>
          /\ Len(visited) <= Len(nodes)
          /\ VisitedNodes = SubSeq(LevelOrder, 1, Len(visited))
          /\ \A i \in 1 .. Len(visited) : visited[i].value = nodes[visited[i].node].value
    /\ pc = "traversed" =>
          /\ \A n \in 1 .. Len(nodes) :
                Cardinality({i \in 1 .. Len(visited) : visited[i].node = n}) = 1
          /\ \A n \in 2 .. Len(nodes) : VisitPos(Parent(n)) < VisitPos(n)
          /\ \A i, j \in 1 .. Len(visited) :
                i < j => EdgeDepth(visited[i].node) <= EdgeDepth(visited[j].node)
          /\ \A p \in 1 .. Len(nodes) : \A a, b \in 1 .. Len(nodes[p].children) :
                a < b => VisitPos(nodes[p].children[a]) < VisitPos(nodes[p].children[b])

C12_Witness ==
    /\ pc = "traversed" /\ Len(nodes) = 5
    /\ nodes[1].children = <<2, 4>>
    /\ nodes[2].children = <<3>>
    /\ nodes[4].children = <<5>>
    /\ VisitedNodes = <<1, 2, 4, 3, 5>>

\* C15: the extractor returns, in document order and with duplicates, the
\* href of every anchor and the src of every image that begins with http://
\* or https://, and nothing else.
Absolute(v) == v.scheme \in {"https", "http"}

RECURSIVE ClaimedLinks(_)
ClaimedLinks(doc) ==
    IF doc = <<>> THEN <<>>
    ELSE LET e == Head(doc)
             own == IF e.tag = "a" THEN e.href ELSE e.src
         IN  (IF own # <<>> /\ Absolute(own[1]) THEN own ELSE <<>>)
             \o ClaimedLinks(Tail(doc))

C15_Orig == pc = "extracted" => output = ClaimedLinks(input)

\* C16: the classifier returns Text(subtype) when the declared media type
\* (parameters aside) is on the allow-list, Other(raw) for any other declared
\* type, Unknown when the header is absent or not valid text.
RECURSIVE MediaType(_)
MediaType(str) ==
    IF str = <<>> \/ Head(str) = ";" THEN <<>>
    ELSE <<Head(str)>> \o MediaType(Tail(str))

SubtypeName(t) ==
    CASE t = TextPlain -> "Plain"
      [] t = TextHtml -> "Html"
      [] t = TextCss -> "Css"
      [] t = TextJavascript -> "Javascript"
      [] t = TextXml -> "Xml"
      [] t = TextMarkdown -> "Markdown"
      [] t = TextCsv -> "Csv"
      [] t = TextRichtext -> "Richtext"
      [] t = TextTsv -> "TabSeparatedValues"

ClaimedClass(header) ==
    IF header = <<>> \/ ~header[1].utf8 THEN [tag |-> "Unknown", sub |-> <<>>]
    ELSE IF MediaType(header[1].str) \in AllowListed
         THEN [tag |-> "Text", sub |-> <<SubtypeName(MediaType(header[1].str))>>]
         ELSE [tag |-> "Other", sub |-> header[1].str]

C16_Orig == pc = "classified" => output = ClaimedClass(input)

\* the nodes still on the frontier queue (the values its cells hold), and
\* the nodes already taken off it
QueuedNodes == {q.cells[c].value : c \in DOMAIN q.cells}
Dequeued(n) == n \notin QueuedNodes

\* the nodes of one BFS level, by their distance from the root
Level(l) == {n \in 1 .. Len(nodes) : EdgeDepth(n) = l}

\* the crawl stands between two levels: some level is dequeued whole and no
\* node of the level after it is
AtLevelBoundary ==
    \E l \in 0 .. Len(nodes) :
        /\ Level(l) # {}
        /\ \A n \in Level(l) : Dequeued(n)
        /\ \A n \in Level(l + 1) : ~Dequeued(n)

\* C17: every step of get_urls that increments url_tree.depth ends at a BFS
\* level boundary: every node of the level being closed has been dequeued and
\* no node of the following level has.
C17_Orig == [][url_tree'.depth # url_tree.depth => AtLevelBoundary']_vars

\* the node being dequeued is the last one of its level still on the queue
LastOfLevel == \A n \in Level(EdgeDepth(Cur)) \ {Cur} : Dequeued(n)

\* C18: the step that processes the last node of a level and classifies it
\* Other closes the level: depth + 1, cur_width takes next_width, next_width
\* and cur_count are reset to zero.
C18_Orig ==
    [][(/\ pc = "crawl" /\ LoopCond
        /\ ~FetchFails(Response)
        /\ ContentTypeOfResponse.tag = "Other"
        /\ LastOfLevel)
       => /\ url_tree'.depth = url_tree.depth + 1
          /\ cur_width' = next_width
          /\ next_width' = 0
          /\ cur_count' = 0]_vars

\* C19: while get_urls runs, for the current level l, cur_width is the number
\* of nodes of l, cur_count the number of nodes of l already dequeued and
\* next_width the number of nodes attached at l + 1; and right after a level
\* close (the only states with both running counters at zero) cur_width is
\* the length of the frontier queue.
C19_Orig ==
    pc = "crawl" =>
        /\ \E l \in 0 .. Len(nodes) :
              /\ cur_width = Cardinality(Level(l))
              /\ cur_count = Cardinality({n \in Level(l) : Dequeued(n)})
              /\ next_width = Cardinality(Level(l + 1))
        /\ (cur_count = 0 /\ next_width = 0) => cur_width = Len(QueueItems(q))

\* every place in a children list: <<parent, index>>
ChildSlots == UNION {{p} \X (1 .. Len(nodes[p].children)) : p \in 1 .. Len(nodes)}

\* the root is in no children list and every other node in exactly one, once
\* (there are as many places as nodes besides the root, and every such node
\* is in one of them), and no node is twice on the frontier queue
TreeShape ==
    LET slots == ChildSlots
    IN  /\ Cardinality(slots) = Len(nodes) - 1
        /\ {nodes[s[1]].children[s[2]] : s \in slots} = (1 .. Len(nodes)) \ {url_tree.root}
        /\ Cardinality(QueuedNodes) = Cardinality(DOMAIN q.cells)
        /\ q.length = Cardinality(DOMAIN q.cells)

TreeStep ==
    LET old == 1 .. Len(nodes)
        grown == {n \in old : nodes'[n].children # nodes[n].children}
    IN  /\ Len(nodes') >= Len(nodes)
        /\ \A n \in old : nodes'[n].value = nodes[n].value
        /\ (QueuedNodes' \cap old) \subseteq QueuedNodes
        /\ \A n \in grown :
              /\ pc = "crawl" /\ LoopCond
              /\ n = Cur
              /\ n \notin QueuedNodes'
              /\ SubSeq(nodes'[n].children, 1, Len(nodes[n].children))
                     = nodes[n].children

\* C20: in every state the link structure is a tree (the root has no parent,
\* every other node sits in exactly one children list, once), and in every
\* step that touches the tree or the frontier queue no node is removed or
\* renamed, a node that has left the queue never returns to it, and a
\* children list changes only by appending, in the step that dequeues that
\* very node.
C20_Tree == []TreeShape /\ [][UNCHANGED <<nodes, q>> \/ TreeStep]_vars

\* a returned tree where a node below the root was expanded and one URL is
\* held by two separate nodes
C20_Witness ==
    /\ pc = "crawled"
    /\ \E n \in 2 .. Len(nodes) : nodes[n].children # <<>>
    /\ \E m, n \in 1 .. Len(nodes) : m # n /\ nodes[m].value = nodes[n].value

\* no download unit exists, none has persisted anything and traverse_async
\* has not begun while get_urls has not returned
NothingDispatched == h = <<>> /\ tq = QueueDefault /\ joined = 0

\* a step of the dispatcher (its queue or its handles change) starts from a
\* state where get_urls has returned; a step of the crawl (a fetch, a change
\* of the tree or of the frontier queue) starts from a state where get_urls
\* runs and nothing is dispatched; once a unit is scheduled the tree stays
PhaseStep ==
    /\ (h' # h \/ tq' # tq \/ joined' # joined) => CrawlReturned
    /\ (fetched' # fetched \/ nodes' # nodes \/ url_tree' # url_tree \/ q' # q) =>
          pc = "crawl" /\ NothingDispatched
    /\ (h # <<>> \/ CrawlReturned) => UNCHANGED <<nodes, url_tree>>

\* C21: in download_depth no download unit is scheduled and nothing is
\* persisted before get_urls has returned the tree, and from the first
\* scheduled unit on (through the joins, a join panic included) no node is
\* attached and no children list changes.
C21_Phases == [](~CrawlReturned => NothingDispatched) /\ [][PhaseStep]_vars

\* the dispatcher is at work on a crawled tree of several levels: one unit has
\* persisted its file, one is in flight, and a node is not yet scheduled
C21_Witness ==
    /\ pc = "spawn"
    /\ Len(fetched) >= 2
    /\ \E n \in 1 .. Len(nodes) : EdgeDepth(n) >= 2
    /\ Len(h) < Len(nodes)
    /\ \E i, j \in 1 .. Len(h) : h[i].state = "ok" /\ h[j].state = "running"

====
